---- MODULE Spec2Model ----
(***************************************************************************)
(* The expression binder of ullage (src/src/sem/binder.rs): Scope,         *)
(* ScopeStack and Binder.  The binder is a recursive descent over a syntax *)
(* tree; every bind_* method is an operator that takes the Binder `b` it   *)
(* is called on and returns the bound Expression `e` together with the     *)
(* Binder as the method leaves it.                                         *)
(***************************************************************************)
EXTENDS Integers, Sequences, FiniteSets, TLC

VARIABLES
    stack,      \* a ScopeStack driven directly through its API
    first,      \* history: per scope of `stack`, the first symbol try_declare was given for each identifier
    last,       \* the last ScopeStack call and what it returned
    tree,       \* the syntax tree handed to Binder::bind_tree
    binder,     \* the Binder
    bound,      \* the Expression bind_tree returned (NotBound before)
    taken,      \* the Vec the last take_diagnostics returned
    phase,      \* "new", "bound", "taken", "drained" or "aborted"
    prev        \* what an earlier fresh Binder made of the same tree

vars == <<stack, first, last, tree, binder, bound, taken, phase, prev>>

scopeVars == <<stack, first, last>>
bindVars == <<tree, binder, bound, taken, phase, prev>>

(***************************************************************************)
(* Typ and Option<Typ>                                                     *)
(***************************************************************************)
Typ(tag, arg) == [tag |-> tag, arg |-> arg]
TBuiltin(b) == Typ("Builtin", b)
TUnit == Typ("Unit", "")
TFunction(id) == Typ("Function", id)
TError == Typ("Error", "")
TUnknown == Typ("Unknown", "")
\* Option<Typ>::None; Some(t) is t itself
None == Typ("None", "")

unwrap_or(t, d) == IF t = None THEN d ELSE t

\* Typ::name(), used in diagnostic messages only
TypName(t) == IF t.tag = "Builtin" THEN t.arg ELSE t.tag

(***************************************************************************)
(* Symbol                                                                  *)
(***************************************************************************)
Variable(style, typ) == [sym |-> "Variable", style |-> style, typ |-> typ, params |-> <<>>]
Function(param_tys, ret_ty) == [sym |-> "Function", style |-> "", typ |-> ret_ty, params |-> param_tys]
Type(typ) == [sym |-> "Type", style |-> "", typ |-> typ, params |-> <<>>]
\* Option<Symbol>::None
NoSymbol == [sym |-> "None", style |-> "", typ |-> None, params |-> <<>>]

(***************************************************************************)
(* Scope: HashMap<Ident, Symbol>, a function from the declared identifiers *)
(***************************************************************************)
Scope_new == [i \in {} |-> NoSymbol]

Scope_lookup(scope, ident) ==
    IF ident \in DOMAIN scope THEN scope[ident] ELSE NoSymbol

Scope_insert(scope, ident, sym) ==
    [i \in DOMAIN scope \cup {ident} |-> IF i = ident THEN sym ELSE scope[i]]

\* try_declare overwriting an occupied entry
try_declare_overwrite(scope, ident, sym) ==
    [ok |-> ident \notin DOMAIN scope, scope |-> Scope_insert(scope, ident, sym)]

\* returns the bool and the scope as the call leaves it
try_declare(scope, ident, sym) ==
    IF ident \in DOMAIN scope
    THEN [ok |-> FALSE, scope |-> scope]
    ELSE [ok |-> TRUE, scope |-> Scope_insert(scope, ident, sym)]

(***************************************************************************)
(* ScopeStack: Vec<Scope>, innermost scope last                            *)
(***************************************************************************)
ScopeStack_new(base) == <<base>>

RECURSIVE find_rev(_, _, _)
find_rev(scopes, id, i) ==
    IF i = 0 THEN NoSymbol
    ELSE IF Scope_lookup(scopes[i], id) # NoSymbol THEN Scope_lookup(scopes[i], id)
    ELSE find_rev(scopes, id, i - 1)

RECURSIVE find_fwd(_, _, _)
find_fwd(scopes, id, i) ==
    IF i > Len(scopes) THEN NoSymbol
    ELSE IF Scope_lookup(scopes[i], id) # NoSymbol THEN Scope_lookup(scopes[i], id)
    ELSE find_fwd(scopes, id, i + 1)

\* lookup walking the stack from the outermost scope
lookup_outermost(scopes, id) == find_fwd(scopes, id, 1)

lookup(scopes, id) == find_rev(scopes, id, Len(scopes))

\* current_mut().try_declare(id, sym); current_mut unwraps last_mut()
declare_current(scopes, id, sym) ==
    [scopes EXCEPT ![Len(scopes)] = try_declare(@, id, sym).scope]

push(scopes, scope) == Append(scopes, scope)

\* a pop that leaves the scope on the stack
pop_nothing(scopes) == scopes

\* pop on an empty stack returns None and leaves the stack empty
pop(scopes) == IF Len(scopes) = 0 THEN scopes ELSE SubSeq(scopes, 1, Len(scopes) - 1)

(***************************************************************************)
(* Iteration order of a HashMap.  std's HashMap hashes with per-process    *)
(* random keys, so the order in which scope.symbols.iter() yields entries  *)
(* is not fixed by the program; `seed` selects one of the orders.          *)
(***************************************************************************)
IdentOrder == <<"f", "g", "x", "y", "Number", "Bool", "String", "T">>

RECURSIVE iter_from(_, _, _)
iter_from(ids, seed, i) ==
    IF i > Len(IdentOrder) THEN <<>>
    ELSE LET k == IF seed = 0 THEN i ELSE Len(IdentOrder) + 1 - i
             rest == iter_from(ids, seed, i + 1)
         IN IF IdentOrder[k] \in ids THEN <<IdentOrder[k]>> \o rest ELSE rest

\* the keys of a map in the order iter() yields them
iter(scope, seed) == iter_from(DOMAIN scope, seed, 1)

\* the loop over a scope's entries leaving after the first function it copies
RECURSIVE flatten_scope_first(_, _, _, _)
flatten_scope_first(scope, order, i, tgt) ==
    IF i > Len(order) THEN tgt
    ELSE IF scope[order[i]].sym = "Function"
         THEN try_declare(tgt, order[i], scope[order[i]]).scope
         ELSE flatten_scope_first(scope, order, i + 1, tgt)

\* for (id, sym) in scope.symbols.iter()
RECURSIVE flatten_scope(_, _, _, _)
flatten_scope(scope, order, i, tgt) ==
    IF i > Len(order) THEN tgt
    ELSE flatten_scope(scope, order, i + 1,
            IF scope[order[i]].sym = "Function"
            THEN try_declare(tgt, order[i], scope[order[i]]).scope
            ELSE tgt)

\* the walk over the stack from the outermost scope to the innermost
RECURSIVE flatten_outermost_first(_, _, _, _)
flatten_outermost_first(scopes, i, tgt, seed) ==
    IF i = 0 THEN tgt
    ELSE flatten_outermost_first(scopes, i - 1,
            flatten_scope(scopes[Len(scopes) + 1 - i],
                          iter(scopes[Len(scopes) + 1 - i], seed), 1, tgt), seed)

\* for scope in self.0.iter().rev()
RECURSIVE flatten_from(_, _, _, _)
flatten_from(scopes, i, tgt, seed) ==
    IF i = 0 THEN tgt
    ELSE flatten_from(scopes, i - 1, flatten_scope(scopes[i], iter(scopes[i], seed), 1, tgt), seed)

flatten_decls_into(scopes, tgt, seed) == flatten_from(scopes, Len(scopes), tgt, seed)

(***************************************************************************)
(* Source positions.  The parser owns the spans; a node is identified by   *)
(* its path from the root and a token by the node it belongs to.           *)
(***************************************************************************)
Pos(at, tok, idx, side) == [at |-> at, tok |-> tok, idx |-> idx, side |-> side]
Span_new(start, end) == [start |-> start, end |-> end]
Span_enclosing(a, b) == Span_new(a.start, b.end)
TokSpan(at, tok, idx) == Span_new(Pos(at, tok, idx, "start"), Pos(at, tok, idx, "end"))
NoSpan == TokSpan(<<>>, "", 0)

\* expression.span() and the spans of a node's own tokens
span(e) == TokSpan(e.path, "expr", 0)
tok_span(e, tok) == TokSpan(e.path, tok, 0)

(***************************************************************************)
(* Syntax tree (crate::syntax): TypeRef and Expression                     *)
(***************************************************************************)
TypeRef(ref, name) == [ref |-> ref, name |-> name, span |-> NoSpan]
TyUnit == TypeRef("Unit", "")
TySimple(name) == TypeRef("Simple", name)
TyArray == TypeRef("Array", "")
TyTuple == TypeRef("Tuple", "")
TyMissing == TypeRef("Missing", "")
\* Option<TypeAnno>::None
NoAnno == TypeRef("None", "")

Param(id, typ) == [id |-> id, typ |-> typ]

Node(kind, id, op, ty, params, kids) ==
    [kind |-> kind, id |-> id, op |-> op, ty |-> ty, params |-> params,
     kids |-> kids, path |-> <<>>]

SIdentifier(id) == Node("Identifier", id, "", NoAnno, <<>>, <<>>)
SLiteral(k, v) == Node("Literal", v, k, NoAnno, <<>>, <<>>)
SPrefix(op, inner) == Node("Prefix", "", op, NoAnno, <<>>, <<inner>>)
SInfix(l, op, r) == Node("Infix", "", op, NoAnno, <<>>, <<l, r>>)
SCall(callee, args) == Node("Call", "", "", NoAnno, <<>>, <<callee>> \o args)
SIndex(indexee, index) == Node("Index", "", "", NoAnno, <<>>, <<indexee, index>>)
SIfThenElse(c, t, f) == Node("IfThenElse", "", "", NoAnno, <<>>, <<c, t, f>>)
SFunction(id, params, ret, body) == Node("Function", id, "", ret, params, <<body>>)
SLoop(kw, c, body) == Node("Loop", "", kw, NoAnno, <<>>, <<c, body>>)
SSequence(exprs) == Node("Sequence", "", "", NoAnno, <<>>, exprs)
SPrint(inner) == Node("Print", "", "", NoAnno, <<>>, <<inner>>)
SDeclaration(style, id, anno, init) == Node("Declaration", id, style, anno, <<>>, <<init>>)
SGrouping(inner) == Node("Grouping", "", "", NoAnno, <<>>, <<inner>>)

\* the spans the parser records: every node, parameter and type reference
RECURSIVE with_spans(_, _)
with_spans(e, p) ==
    [e EXCEPT
        !.path = p,
        !.ty = [@ EXCEPT !.span = TokSpan(p, "type", 0)],
        !.params = [i \in DOMAIN @ |->
            [@[i] EXCEPT !.typ = [@ EXCEPT !.span = TokSpan(p, "param_type", i)]]],
        !.kids = [i \in DOMAIN @ |-> with_spans(@[i], Append(p, i))]]

(***************************************************************************)
(* Semantic tree (sem::tree): Expression, VarDecl, FnDecl                  *)
(***************************************************************************)
VarDecl(ident, ty) == [ident |-> ident, ty |-> ty]

Expression_new(kind, typ, id, op, ty, params, kids) ==
    [kind |-> kind, typ |-> typ, id |-> id, op |-> op, ty |-> ty,
     params |-> params, kids |-> kids]

\* Expression::error(): the Error sentinel, no children, Some(Typ::Error)
Expression_error == Expression_new("Error", TError, "", "", None, <<>>, <<>>)

\* no Expression: the call unwound
Unwound == Expression_new("Unwound", None, "", "", None, <<>>, <<>>)
NotBound == Expression_new("NotBound", None, "", "", None, <<>>, <<>>)

(***************************************************************************)
(* Diagnostic: message (format string and its arguments) and span          *)
(***************************************************************************)
Diagnostic(msg, args, sp) == [msg |-> msg, args |-> args, span |-> sp]

(***************************************************************************)
(* Binder.  scopes and diagnostics are its fields.  abort records that a   *)
(* panic is unwinding through the bind; seed is the HashMap iteration      *)
(* order of the process.  history and level are history variables: what    *)
(* the bind did, in order, with the nesting depth of the Binder doing it:  *)
(*   "diag"      a diagnostic d was pushed                                 *)
(*   "ident"     bind_identifier looked up id at node `at` and got sym     *)
(*   "call"      bind_call looked up the callee's function id and got sym; *)
(*               n arguments of the call were bound                        *)
(*   "function"  bind_function entered for the node `at`, self.scopes was  *)
(*               scopes                                                    *)
(*   "merge"     bind_function appended the nested Binder's ds; the nested *)
(*               Binder's list then held n diagnostics                     *)
(*   "assign"    bind_assign, for the assignment `at`, looked up the       *)
(*               target id and got sym                                     *)
(*   "type"      bind_type was called on the type reference ty, whose      *)
(*               name lookup gave sym, and returned typ (None: it did not  *)
(*               return)                                                   *)
(*   "enter"     bind_expression was called on the syntax node `at`;       *)
(*               self.scopes was scopes                                    *)
(*   "declare"   bind_declaration, for the node `at`, is about to          *)
(*               try_declare id as sym; self.scopes was scopes             *)
(*   "node"      bind_expression returned, for the syntax node `at`, an    *)
(*               Expression of kind id and type typ with n children;       *)
(*               self.scopes was then scopes                               *)
(***************************************************************************)
NoDiag == Diagnostic("", <<>>, NoSpan)
Event(ev, at, id, sym, d, level, n, scopes, ds) ==
    [ev |-> ev, at |-> at, id |-> id, sym |-> sym, d |-> d, level |-> level,
     n |-> n, scopes |-> scopes, ds |-> ds, typ |-> None, ty |-> NoAnno]

Binder_new(scope) ==
    [scopes |-> ScopeStack_new(scope), diagnostics |-> <<>>, abort |-> FALSE,
     seed |-> 0, history |-> <<>>, level |-> 0]

log(b, ev, at, id, sym, n, scopes, ds) ==
    IF b.abort THEN b
    ELSE [b EXCEPT !.history =
            Append(@, Event(ev, at, id, sym, NoDiag, b.level, n, scopes, ds))]

log_type(b, ty_ref, t) ==
    IF b.abort THEN b
    ELSE [b EXCEPT !.history =
            Append(@, [Event("type", ty_ref.span.start.at, ty_ref.name,
                             IF ty_ref.ref = "Simple" THEN lookup(b.scopes, ty_ref.name)
                             ELSE NoSymbol,
                             NoDiag, b.level, 0, <<>>, <<>>)
                       EXCEPT !.ty = ty_ref, !.typ = t])]

log_node(b, at, e) ==
    IF b.abort THEN b
    ELSE [b EXCEPT !.history =
            Append(@, [Event("node", at, e.kind, NoSymbol, NoDiag, b.level,
                             Len(e.kids), b.scopes, <<>>) EXCEPT !.typ = e.typ])]

log_enter(b, expression) ==
    log(b, "enter", expression.path, expression.kind, NoSymbol, 0, b.scopes, <<>>)

log_declare(b, decl, sym) == log(b, "declare", decl.path, decl.id, sym, 0, b.scopes, <<>>)

\* self.diagnostics.push(Diagnostic::new(..))
push_diag(b, msg, args, sp) ==
    IF b.abort THEN b
    ELSE [b EXCEPT !.diagnostics = Append(@, Diagnostic(msg, args, sp)),
                   !.history = Append(@, Event("diag", <<>>, "", NoSymbol,
                                    Diagnostic(msg, args, sp), b.level, 0, <<>>, <<>>))]

\* panic!, unimplemented!, unreachable!
panic(b) == [b EXCEPT !.abort = TRUE]

\* self.scopes.current_mut().try_declare(id, sym)
declare(b, id, sym) ==
    IF b.abort THEN b ELSE [b EXCEPT !.scopes = declare_current(@, id, sym)]

\* take_diagnostics that returns the list and keeps it
take_diagnostics_keep(b) == [out |-> b.diagnostics, b |-> b]

take_diagnostics(b) ==
    [out |-> b.diagnostics, b |-> [b EXCEPT !.diagnostics = <<>>]]

\* add_builtin_types on the current scope
add_builtin_types(b) ==
    declare(declare(declare(b,
        "String", Type(TBuiltin("String"))),
        "Bool", Type(TBuiltin("Bool"))),
        "Number", Type(TBuiltin("Number")))

\* let value = ..; rest: the statements after a let see its value
Then(value, Rest(_)) == Rest(value)

\* bind_type that reports array, tuple and missing type references as
\* undefined types
bind_type_recovering(ty_ref, b) ==
    IF b.abort THEN [t |-> TError, b |-> b]
    ELSE IF ty_ref.ref = "Unit" THEN [t |-> TUnit, b |-> log_type(b, ty_ref, TUnit)]
    ELSE Then(lookup(b.scopes, ty_ref.name), LAMBDA sym :
        IF sym.sym = "Type"
        THEN [t |-> sym.typ, b |-> log_type(b, ty_ref, sym.typ)]
        ELSE [t |-> TError,
              b |-> push_diag(log_type(b, ty_ref, TError), "Reference to undefined type",
                              <<>>, ty_ref.span)])

bind_type(ty_ref, b) ==
    IF b.abort THEN [t |-> TError, b |-> b]
    ELSE IF ty_ref.ref = "Unit" THEN [t |-> TUnit, b |-> log_type(b, ty_ref, TUnit)]
    ELSE IF ty_ref.ref = "Simple" THEN
        Then(lookup(b.scopes, ty_ref.name), LAMBDA sym :
            IF sym.sym = "Type"
            THEN [t |-> sym.typ, b |-> log_type(b, ty_ref, sym.typ)]
            ELSE [t |-> TError,
                  b |-> push_diag(log_type(b, ty_ref, TError), "Reference to undefined type",
                                  <<>>, ty_ref.span)])
    ELSE [t |-> TError, b |-> panic(log_type(b, ty_ref, None))]

\* operators::find_builtin_op: result type of the table entry, None if absent
find_builtin_op(op, lhs_typ, rhs_typ) ==
    IF lhs_typ = TBuiltin("Number") /\ rhs_typ = TBuiltin("Number")
    THEN IF op \in {"Add", "Sub", "Mul", "Div"} THEN TBuiltin("Number")
         ELSE IF op \in {"Eq", "NotEq", "Lt", "Gt"} THEN TBuiltin("Bool")
         ELSE None
    ELSE None

(***************************************************************************)
(* Declare pass                                                            *)
(***************************************************************************)
\* the closure of declare_function's params.iter().map(..).collect()
RECURSIVE declare_param_tys(_, _, _, _)
declare_param_tys(params, i, b, acc) ==
    IF i > Len(params) THEN [tys |-> acc, b |-> b]
    ELSE IF params[i].typ.ref = "None"
         THEN declare_param_tys(params, i + 1, b, Append(acc, TError))
         ELSE Then(bind_type(params[i].typ, b), LAMBDA r :
                  declare_param_tys(params, i + 1, r.b, Append(acc, r.t)))

declare_function(func, b) ==
    Then(declare_param_tys(func.params, 1, b, <<>>), LAMBDA ps :
    Then(bind_type(func.ty, ps.b), LAMBDA ret :
        declare(ret.b, func.id, Function(ps.tys, ret.t))))

RECURSIVE declare_expression(_, _)
RECURSIVE declare_each(_, _, _)
declare_each(seq, i, b) ==
    IF i > Len(seq) THEN b
    ELSE declare_each(seq, i + 1, declare_expression(seq[i], b))

\* declare_expression that skips the declare pass
declare_nothing(expression, b) == b

declare_expression(expression, b) ==
    IF expression.kind = "Function" THEN declare_function(expression, b)
    ELSE IF expression.kind = "Sequence" THEN declare_each(expression.kids, 1, b)
    ELSE IF expression.kind = "Grouping" THEN declare_expression(expression.kids[1], b)
    ELSE b

(***************************************************************************)
(* Bind pass                                                               *)
(***************************************************************************)
RECURSIVE bind_expression(_, _)

\* the type the symbol itself carries
identifier_typ_of_symbol(sym, id) == sym.typ

\* the match on the symbol found: Some(t), Some(Typ::Function(ident)) or None
identifier_typ(sym, id) ==
    IF sym.sym = "Variable" THEN sym.typ
    ELSE IF sym.sym = "Function" THEN TFunction(id)
    ELSE None

bind_identifier(ident, b) ==
    Then(lookup(b.scopes, ident.id), LAMBDA sym :
    Then(log(b, "ident", ident.path, ident.id, sym, 0, b.scopes, <<>>), LAMBDA looked :
        IF sym # NoSymbol
        THEN [e |-> Expression_new("Identifier", identifier_typ(sym, ident.id),
                                   ident.id, "", None, <<>>, <<>>),
              b |-> looked]
        ELSE [e |-> Expression_error,
              b |-> push_diag(looked, "Can't find '{}' in this scope", <<ident.id>>,
                              tok_span(ident, "token"))]))

bind_literal(lit, b) ==
    [e |-> Expression_new("Literal", TBuiltin(lit.op), lit.id, "", None, <<>>, <<>>),
     b |-> b]

bind_prefix(pref, b) ==
    Then(bind_expression(pref.kids[1], b), LAMBDA inner :
        [e |-> Expression_new("Prefix", inner.e.typ, "", pref.op, None, <<>>, <<inner.e>>),
         b |-> inner.b])

\* every variable taken as mutable
is_mutable_always(style) == TRUE

\* style != VarStyle::Mutable, negated
is_mutable(style) == style = "Mutable"

bind_assign(id, infix, b) ==
    Then(lookup(b.scopes, id.id), LAMBDA sym :
    Then(log(b, "assign", infix.path, id.id, sym, 0, <<>>, <<>>), LAMBDA looked :
        IF sym.sym = "Variable" THEN
            Then(IF ~is_mutable(sym.style)
                 THEN push_diag(looked, "Can't assign to '{}', it isn't mutable",
                                <<id.id>>, tok_span(infix, "op_token"))
                 ELSE looked, LAMBDA b1 :
            Then(bind_expression(infix.kids[2], b1), LAMBDA rhs :
            Then(unwrap_or(rhs.e.typ, sym.typ), LAMBDA resolved_ty :
                [e |-> Expression_new("Assignment", resolved_ty, id.id, "", None, <<>>,
                                      <<rhs.e>>),
                 b |-> IF resolved_ty # sym.typ
                       THEN push_diag(rhs.b, "Type mismatch in assignment to '{}' ",
                                      <<id.id>>, tok_span(infix, "op_token"))
                       ELSE rhs.b])))
        ELSE IF sym # NoSymbol THEN
            [e |-> Expression_error,
             b |-> push_diag(looked, "Can't write to '{}' as it isn't a variable.", <<id.id>>,
                             tok_span(id, "token"))]
        ELSE [e |-> Expression_error,
              b |-> push_diag(looked, "Can't assign to '{}'", <<id.id>>,
                              tok_span(id, "token"))]))

bind_infix(infix, b) ==
    IF infix.op = "Assign" THEN
        IF infix.kids[1].kind = "Identifier"
        THEN bind_assign(infix.kids[1], infix, b)
        ELSE [e |-> Expression_error,
              b |-> push_diag(b, "left hand side of an assignment must be an identifier",
                              <<>>, span(infix.kids[1]))]
    ELSE
        Then(bind_expression(infix.kids[1], b), LAMBDA lhs :
        Then(bind_expression(infix.kids[2], lhs.b), LAMBDA rhs :
        Then(find_builtin_op(infix.op, unwrap_or(lhs.e.typ, TUnknown),
                             unwrap_or(rhs.e.typ, TUnknown)), LAMBDA operator :
            IF operator # None
            THEN [e |-> Expression_new("Infix", operator, "", infix.op, None, <<>>,
                                       <<lhs.e, rhs.e>>),
                  b |-> rhs.b]
            ELSE [e |-> Expression_error,
                  \* the message, without its backquotes
                  b |-> push_diag(rhs.b, "Use of operator {:?} with invalid arguments",
                                  <<infix.op>>,
                                  Span_enclosing(span(infix.kids[1]),
                                                 span(infix.kids[2])))])))

\* the arguments bound and none compared with its parameter
RECURSIVE bind_args_unchecked(_, _, _, _, _)
bind_args_unchecked(call, param_tys, i, b, acc) ==
    IF i > Len(call.kids) - 1 \/ i > Len(param_tys) THEN [es |-> acc, b |-> b]
    ELSE Then(bind_expression(call.kids[i + 1], b), LAMBDA bound_arg :
             bind_args_unchecked(call, param_tys, i + 1, bound_arg.b,
                                 Append(acc, bound_arg.e)))

\* call.arguments.iter().zip(param_tys).map(..).collect(); arguments[i] is kids[i + 1]
RECURSIVE bind_args(_, _, _, _, _)
bind_args(call, param_tys, i, b, acc) ==
    IF i > Len(call.kids) - 1 \/ i > Len(param_tys) THEN [es |-> acc, b |-> b]
    ELSE Then(bind_expression(call.kids[i + 1], b), LAMBDA bound_arg :
             bind_args(call, param_tys, i + 1,
                 IF bound_arg.e.typ # param_tys[i]
                 THEN push_diag(bound_arg.b,
                          "Invalid argument. Expected '{}' but found '{}'",
                          <<TypName(param_tys[i]),
                            TypName(unwrap_or(bound_arg.e.typ, TUnknown))>>,
                          span(call.kids[i + 1]))
                 ELSE bound_arg.b,
                 Append(acc, bound_arg.e)))

\* a span over all the arguments of the call
arguments_span(call, param_count) ==
    Span_new(span(call.kids[2]).start, tok_span(call, "close_paren").start)

\* from the start of arguments[param_count] to the start of the closing paren
surplus_span(call, param_count) ==
    Span_new(span(call.kids[param_count + 2]).start, tok_span(call, "close_paren").start)

bind_call(call, b) ==
    Then(bind_expression(call.kids[1], b), LAMBDA callee :
        IF callee.b.abort THEN [e |-> Unwound, b |-> callee.b]
        ELSE IF callee.e.typ.tag = "Function" THEN
            Then(lookup(callee.b.scopes, callee.e.typ.arg), LAMBDA sym :
            Then(Len(sym.params), LAMBDA param_count :
            Then(Len(call.kids) - 1, LAMBDA arg_count :
            Then(IF arg_count < param_count
                 THEN push_diag(callee.b, "Too few arguments to call", <<>>,
                          Span_enclosing(tok_span(call, "open_paren"),
                                         tok_span(call, "close_paren")))
                 ELSE callee.b, LAMBDA b1 :
            Then(IF arg_count > param_count
                 THEN push_diag(b1, "Too many arguments to call", <<>>,
                                surplus_span(call, param_count))
                 ELSE b1, LAMBDA b2 :
            Then(bind_args(call, sym.params, 1, b2, <<>>), LAMBDA args :
                IF sym.sym = "Function"
                THEN [e |-> Expression_new("Call", sym.typ, "", "", None, <<>>,
                                           <<callee.e>> \o args.es),
                      b |-> log(args.b, "call", call.path, callee.e.typ.arg, sym,
                                Len(args.es), <<>>, <<>>)]
                ELSE [e |-> Unwound,
                      b |-> panic(log(callee.b, "call", call.path, callee.e.typ.arg, sym,
                                      0, <<>>, <<>>))]))))))
        ELSE [e |-> Expression_error,
              b |-> push_diag(callee.b, "Called item is not a function", <<>>,
                              span(call.kids[1]))])

bind_index(index, b) ==
    Then(bind_expression(index.kids[1], b), LAMBDA indexee :
    Then(bind_expression(index.kids[2], indexee.b), LAMBDA inddex :
        [e |-> Expression_error,
         b |-> push_diag(inddex.b, "Index expressions are not yet supported", <<>>,
                   Span_enclosing(tok_span(index, "open_bracket"),
                                  tok_span(index, "close_bracket")))]))

\* the type of the else branch
if_else_typ_of_else(if_true, if_false) == if_false.typ

\* let typ = if_true.typ
if_else_typ(if_true, if_false) == if_true.typ

bind_if_else(if_else, b) ==
    Then(bind_expression(if_else.kids[1], b), LAMBDA cond :
    Then(bind_expression(if_else.kids[2], cond.b), LAMBDA if_true :
    Then(bind_expression(if_else.kids[3], if_true.b), LAMBDA if_false :
    Then(unwrap_or(cond.e.typ, TUnknown), LAMBDA cond_ty :
    Then(IF cond_ty # TBuiltin("Bool")
         THEN push_diag(if_false.b, "Condition expression should be 'Bool' but is '{}'",
                        <<TypName(cond_ty)>>, span(if_else.kids[1]))
         ELSE if_false.b, LAMBDA b1 :
    Then(unwrap_or(if_true.e.typ, TUnknown), LAMBDA true_typ :
    Then(unwrap_or(if_false.e.typ, TUnknown), LAMBDA false_typ :
        [e |-> Expression_new("IfThenElse", if_else_typ(if_true.e, if_false.e), "", "",
                              None, <<>>,
                              <<cond.e, if_true.e, if_false.e>>),
         b |-> IF true_typ # false_typ
               THEN push_diag(b1, "If and else have mismatched types. '{}' and '{}'",
                              <<TypName(true_typ), TypName(false_typ)>>,
                              Span_enclosing(span(if_else.kids[2]), span(if_else.kids[3])))
               ELSE b1])))))))

\* Scope::new() is pushed, the contents bound, the scope popped
bind_block(block, b) ==
    Then(bind_expression(block, IF b.abort THEN b
                                ELSE [b EXCEPT !.scopes = push(@, Scope_new)]), LAMBDA r :
        [e |-> r.e,
         b |-> IF r.b.abort THEN r.b ELSE [r.b EXCEPT !.scopes = pop(@)]])

\* the closure of bind_function's params.iter().map(..).collect(): acc holds
\* the Binder, parent_scope, seen_idents and the VarDecls collected so far
RECURSIVE bind_params(_, _, _)
bind_params(func, i, acc) ==
    IF i > Len(func.params) THEN acc
    ELSE Then(func.params[i], LAMBDA p :
         Then(TokSpan(func.path, "param", i), LAMBDA id_tok :
         Then(IF p.typ.ref # "None" THEN bind_type(p.typ, acc.b)
              ELSE [t |-> TError,
                    b |-> push_diag(acc.b, "Parameter '{}' missing type", <<p.id>>, id_tok)],
              LAMBDA typ :
             bind_params(func, i + 1,
                 [b |-> IF p.id \in acc.seen_idents
                        THEN push_diag(typ.b, "Duplicate function parameter '{}'",
                                       <<p.id>>, id_tok)
                        ELSE typ.b,
                  parent_scope |-> try_declare(acc.parent_scope, p.id,
                                               Variable("Mutable", typ.t)).scope,
                  seen_idents |-> acc.seen_idents \cup {p.id},
                  params |-> Append(acc.params, VarDecl(p.id, typ.t))]))))

\* a merge that drops the nested Binder's diagnostics
append_dropped(diagnostics, drained) == diagnostics

\* Vec::append of the drained list
append(diagnostics, drained) == diagnostics \o drained

\* The body is bound by a new Binder on parent_scope.  The history is handed
\* to the nested Binder and back; a panic in it unwinds through here.
bind_function(func, b) ==
    Then(bind_params(func, 1,
             [b |-> log(b, "function", func.path, func.id, NoSymbol, 0, b.scopes, <<>>),
              parent_scope |-> flatten_decls_into(b.scopes, Scope_new, b.seed),
              seen_idents |-> {}, params |-> <<>>]), LAMBDA ps :
    Then(bind_block(func.kids[1],
             [Binder_new(ps.parent_scope) EXCEPT
                !.abort = ps.b.abort, !.seed = b.seed,
                !.history = ps.b.history, !.level = b.level + 1]), LAMBDA bound_body :
    Then(bind_type(func.ty, [ps.b EXCEPT !.history = bound_body.b.history,
                                         !.abort = bound_body.b.abort]), LAMBDA ret_ty :
    Then(take_diagnostics(bound_body.b), LAMBDA drained :
        [e |-> Expression_new("Function", TError, func.id, "", ret_ty.t, ps.params,
                              <<bound_body.e>>),
         b |-> log([ret_ty.b EXCEPT !.diagnostics = append(@, drained.out)],
                   "merge", func.path, func.id, NoSymbol,
                   Len(drained.b.diagnostics), <<>>, drained.out)]))))

bind_loop(loop_expr, b) ==
    Then(bind_expression(loop_expr.kids[1], b), LAMBDA c :
    Then(bind_block(loop_expr.kids[2], c.b), LAMBDA body :
        [e |-> Expression_new("Loop", TUnit, "", "", None, <<>>,
                   <<IF loop_expr.op = "until"
                     THEN Expression_new("Prefix", c.e.typ, "", "Not", None, <<>>, <<c.e>>)
                     ELSE c.e,
                     body.e>>),
         b |-> body.b]))

RECURSIVE bind_each(_, _, _, _)
bind_each(exprs, i, b, acc) ==
    IF i > Len(exprs) THEN [es |-> acc, b |-> b]
    ELSE Then(bind_expression(exprs[i], b), LAMBDA r :
             bind_each(exprs, i + 1, r.b, Append(acc, r.e)))

bind_sequence(exprs, b) ==
    Then(bind_each(exprs.kids, 1, b, <<>>), LAMBDA transformed :
        [e |-> Expression_new("Sequence",
                   IF Len(transformed.es) = 0 THEN TUnit
                   ELSE unwrap_or(transformed.es[Len(transformed.es)].typ, TUnit),
                   "", "", None, <<>>, transformed.es),
         b |-> transformed.b])

bind_print(print, b) ==
    Then(bind_expression(print.kids[1], b), LAMBDA bound_printee :
        [e |-> Expression_new("Print", bound_printee.e.typ, "", "", None, <<>>,
                              <<bound_printee.e>>),
         b |-> bound_printee.b])

\* no initialiser taken as a mismatch
initialiser_mismatch_never(decl_type, typ) == FALSE

\* decl_type != Typ::Unknown and the initialiser's type is Some(t) if t != decl_type
initialiser_mismatch(decl_type, typ) ==
    decl_type # TUnknown /\ typ # None /\ typ # decl_type

\* the Binder with the variable declared ahead of its initialiser
declared_ahead(decl, b) == declare(b, decl.id, Variable(decl.op, TUnknown))

\* the Binder the initialiser is bound by: self, with nothing declared yet
before_declaring(decl, b) == b

bind_declaration(decl, b) ==
    Then(IF decl.ty.ref # "None" THEN bind_type(decl.ty, b)
         ELSE [t |-> TUnknown, b |-> b], LAMBDA decl_type :
    Then(bind_expression(decl.kids[1], before_declaring(decl, decl_type.b)),
         LAMBDA bound_initialiser :
    Then(initialiser_mismatch(decl_type.t, bound_initialiser.e.typ), LAMBDA mismatch :
    Then(IF decl_type.t # TUnknown
         THEN IF mismatch THEN TError ELSE decl_type.t
         ELSE bound_initialiser.e.typ, LAMBDA ty :
        [e |-> Expression_new("Declaration", ty, decl.id, decl.op, ty, <<>>,
                              <<bound_initialiser.e>>),
         b |-> declare(log_declare(IF mismatch
                                   THEN push_diag(bound_initialiser.b,
                                            "Initialiser doesn't match declaration type for '{}'",
                                            <<decl.id>>, tok_span(decl, "id_tok"))
                                   ELSE bound_initialiser.b,
                                   decl, Variable(decl.op, unwrap_or(ty, TUnknown))),
                       decl.id, Variable(decl.op, unwrap_or(ty, TUnknown)))]))))

\* once a panic unwinds, no further method runs
bind_expression(expression, b) ==
    IF b.abort THEN [e |-> Unwound, b |-> b]
    ELSE Then(log_enter(b, expression), LAMBDA entered :
         Then(CASE expression.kind = "Identifier" -> bind_identifier(expression, entered)
                [] expression.kind = "Literal" -> bind_literal(expression, entered)
                [] expression.kind = "Prefix" -> bind_prefix(expression, entered)
                [] expression.kind = "Infix" -> bind_infix(expression, entered)
                [] expression.kind = "Call" -> bind_call(expression, entered)
                [] expression.kind = "Index" -> bind_index(expression, entered)
                [] expression.kind = "IfThenElse" -> bind_if_else(expression, entered)
                [] expression.kind = "Function" -> bind_function(expression, entered)
                [] expression.kind = "Loop" -> bind_loop(expression, entered)
                [] expression.kind = "Sequence" -> bind_sequence(expression, entered)
                [] expression.kind = "Print" -> bind_print(expression, entered)
                [] expression.kind = "Declaration" -> bind_declaration(expression, entered)
                [] expression.kind = "Grouping" -> bind_expression(expression.kids[1], entered),
              LAMBDA r : [e |-> r.e, b |-> log_node(r.b, expression.path, r.e)]))

bind_tree(t, b) ==
    Then(bind_expression(t, declare_expression(t, add_builtin_types(b))), LAMBDA r :
        IF r.b.abort THEN [e |-> Unwound, b |-> r.b] ELSE r)

(***************************************************************************)
(* Inputs                                                                  *)
(***************************************************************************)
MaxScopes == 2
MaxArgs == 2

Seeds == {0, 1}

Num == SLiteral("Number", "1")
True == SLiteral("Bool", "true")
TyNumber == TySimple("Number")
TyBool == TySimple("Bool")
Let(id, init) == SDeclaration("Immutable", id, NoAnno, init)
Call0(id) == SCall(SIdentifier(id), <<>>)

\* sequences over S of length at most n
RECURSIVE SeqsUpTo(_, _)
SeqsUpTo(S, n) ==
    IF n = 0 THEN {<<>>}
    ELSE LET shorter == SeqsUpTo(S, n - 1)
         IN shorter \cup {Append(q, x) : q \in {r \in shorter : Len(r) = n - 1}, x \in S}

\* fn f(..): Number with 0, 1 or 2 parameters, and a call of it, before or after
CallTrees ==
    LET decls == {SFunction("f", ps, TyNumber, Num) :
                    ps \in {<<>>, <<Param("x", TyNumber)>>,
                            <<Param("x", TyNumber), Param("y", TyBool)>>}}
        callees == {SIdentifier("f"), SIdentifier("y"), Num,
                    SGrouping(SIdentifier("f")), SPrint(SIdentifier("f"))}
        calls == {SCall(c, as) : c \in callees,
                                 as \in SeqsUpTo({Num, True, SIdentifier("y")}, MaxArgs)}
    IN {SSequence(<<d, c>>) : d \in decls, c \in calls}
       \cup {SSequence(<<c, d>>) : d \in decls, c \in calls}

\* two sibling functions, each body a reference to or a call of a function
RecTrees ==
    LET names == {"f", "g", "Number"}
        bodies == {SIdentifier(n) : n \in names} \cup {Call0(n) : n \in names}
    IN {SSequence(<<SFunction(n1, <<>>, TyNumber, b1), SFunction(n2, <<>>, TyBool, b2)>>) :
            n1 \in names, n2 \in names, b1 \in bodies, b2 \in bodies}

\* a function g declared at the top level, in a loop body or in the body of
\* another function, under declarations of x as a variable and as a function
ClosureTrees ==
    LET outer == {<<>>, <<Let("x", Num)>>, <<SFunction("x", <<>>, TyNumber, Num)>>}
        inner == {<<>>, <<Let("x", True)>>}
        gs == {SFunction("g", ps, TyNumber, body) :
                ps \in {<<>>, <<Param("x", TyNumber)>>},
                body \in {SIdentifier("x"), SIdentifier("g"),
                          SSequence(<<Let("x", Num), SIdentifier("x")>>)}}
    IN {SSequence(o \o <<g>>) : o \in outer, g \in gs}
       \cup {SSequence(o \o <<SLoop("while", True, SSequence(i \o <<g>>))>>) :
                o \in outer, i \in inner, g \in gs}
       \cup {SSequence(o \o <<SFunction("h", <<>>, TyNumber, SSequence(i \o <<g>>))>>) :
                o \in outer, i \in inner, g \in gs}

\* a value of type Function(f) held by g and called where f may be shadowed
HeldCallTrees ==
    LET f == SIdentifier("f")
        holders == {f, SGrouping(f), SPrint(f), SPrefix("Not", f), SIfThenElse(True, f, f)}
        shadow == {<<>>, <<Let("f", Num)>>,
                   <<SFunction("f", <<Param("p", TyBool)>>, TyBool, True)>>}
        callees == {SIdentifier("g"), SPrint(SIdentifier("g")), f}
        blocks == {SSequence(<<Let("g", h)>> \o s \o <<SCall(c, <<>>)>>) :
                    h \in holders, s \in shadow, c \in callees}
        decl == SFunction("f", <<>>, TyNumber, Num)
    IN {SSequence(<<decl, SLoop("while", True, blk)>>) : blk \in blocks}
       \cup {SSequence(<<decl, SFunction("h", <<>>, TyNumber, blk)>>) : blk \in blocks}
       \cup {SSequence(<<decl, blk.kids[1], SLoop("until", True, SSequence(Tail(blk.kids)))>>) :
                blk \in blocks}

\* f held by g and called with arguments, at the top level and in a loop body
\* that holds another function f
HeldArgTrees ==
    LET f == SFunction("f", <<Param("x", TyNumber)>>, TyBool, True)
        other == SFunction("f", <<Param("p", TyBool)>>, TyNumber, Num)
        calls == {SCall(SIdentifier("g"), as) : as \in SeqsUpTo({Num, True}, MaxArgs)}
    IN {SSequence(<<f, Let("g", SIdentifier("f")), c>>) : c \in calls}
       \cup {SSequence(<<f, Let("g", SIdentifier("f")),
                         SLoop("while", True, SSequence(<<other, c>>))>>) : c \in calls}

\* functions nested in functions, with unresolved names and types at each depth
NestedTrees ==
    LET bad == SIdentifier("y")
        rets == {TyNumber, TySimple("T")}
        leafs == {SSequence(s) : s \in SeqsUpTo({bad, Num}, 2)}
        inner == {SFunction("h", <<>>, r, l) : r \in rets, l \in leafs}
        mids == {SFunction("g", <<>>, r, SSequence(pre \o <<i>> \o post)) :
                    r \in rets, i \in inner, pre \in {<<>>, <<bad>>}, post \in {<<>>, <<bad>>}}
    IN {SSequence(<<SFunction("f", <<>>, r, SSequence(pre \o <<m>> \o post))>>) :
            r \in rets, m \in mids, pre \in {<<>>, <<bad>>}, post \in {<<>>, <<bad>>}}

\* expressions of type Number, Bool, Error (y is not declared) and of no type
\* (String names a type)
Leaves == {Num, True, SIdentifier("y"), SIdentifier("String")}

\* `let x: anno = init` at the top level and in a function body, and functions
\* whose parameter and return types are of every kind of type reference
TypeTrees ==
    LET annos == {NoAnno, TyNumber, TyBool, TySimple("T"), TyUnit, TyArray, TyTuple, TyMissing}
        decls == {SDeclaration("Immutable", "x", a, i) : a \in annos, i \in Leaves}
        sigs == {SFunction("f", <<Param("p", a)>>, r, Num) :
                    a \in annos, r \in {TyNumber, TySimple("T"), TyArray}}
    IN {SSequence(<<d>>) : d \in decls}
       \cup {SSequence(<<f>>) : f \in sigs}
       \cup {SSequence(<<SFunction("f", <<>>, TyNumber, SSequence(<<d>>))>>) : d \in decls}

\* if-then-else and infix operators over the leaves
ExprTrees ==
    {SSequence(<<SIfThenElse(c, t, f)>>) : c \in Leaves, t \in Leaves, f \in Leaves}
    \cup {SSequence(<<SInfix(l, op, r)>>) : l \in Leaves, r \in Leaves, op \in {"Add", "Eq"}}

\* assignments to an immutable or mutable variable, to a parameter, to a
\* function, to an undeclared name and to something that is no identifier
AssignTrees ==
    LET x == SIdentifier("x")
        decls == {SDeclaration(st, "x", a, i) : st \in {"Immutable", "Mutable"},
                    a \in {NoAnno, TyNumber}, i \in {Num, True}}
    IN {SSequence(<<d, SInfix(x, "Assign", rhs)>>) : d \in decls, rhs \in Leaves}
       \cup {SSequence(<<SFunction("f", <<Param("x", TyNumber)>>, TyNumber,
                                   SInfix(x, "Assign", rhs))>>) : rhs \in Leaves}
       \cup {SSequence(<<SFunction("f", <<>>, TyNumber, Num),
                         SInfix(lhs, "Assign", Num)>>) :
                lhs \in {SIdentifier("f"), SIdentifier("z"), Num}}

\* a function g declared in a block (the top-level sequence, a loop body, a
\* function body) and used by an expression or a sibling function of the block
BlockTrees ==
    LET g == SFunction("g", <<>>, TyNumber, Num)
        uses == {Call0("g"), SIdentifier("g")}
        others == uses \cup {SFunction("k", <<>>, TyNumber, u) : u \in uses}
        contents == {<<g, o>> : o \in others} \cup {<<o, g>> : o \in others}
    IN {SSequence(c) : c \in contents}
       \cup {SSequence(<<SLoop("while", True, SSequence(c))>>) : c \in contents}
       \cup {SSequence(<<SFunction("h", <<>>, TyNumber, SSequence(c))>>) : c \in contents}

\* a declaration of x or Number after a variable or a function x of the same
\* scope, at the top level, in a loop body and in a function body, and a use of
\* the name after the block
DeclTrees ==
    LET firsts == {<<>>, <<Let("x", Num)>>, <<SDeclaration("Mutable", "x", NoAnno, True)>>,
                   <<SFunction("x", <<>>, TyNumber, Num)>>}
        decls == {SDeclaration(st, id, a, i) :
                    st \in {"Immutable", "Mutable"}, id \in {"x", "Number"},
                    a \in {NoAnno, TyBool}, i \in {Num, True, SIdentifier("x")}}
    IN {SSequence(f \o <<d, SIdentifier(d.id)>>) : f \in firsts, d \in decls}
       \cup {SSequence(<<SLoop("while", True, SSequence(f \o <<d>>)), SIdentifier(d.id)>>) :
                f \in firsts, d \in decls}
       \cup {SSequence(<<SFunction("h", <<>>, TyNumber, SSequence(f \o <<d>>)),
                         SIdentifier(d.id)>>) : f \in firsts, d \in decls}

\* a top-level expression ahead of a function whose signature names an
\* undefined type
OrderTrees ==
    {SSequence(<<e, SFunction("f", ps, TySimple("T"), Num)>>) :
        e \in {SIdentifier("y"), Num}, ps \in {<<>>, <<Param("p", TySimple("T"))>>}}

Trees ==
    CallTrees \cup RecTrees \cup ClosureTrees \cup HeldCallTrees \cup NestedTrees
    \cup TypeTrees \cup ExprTrees \cup AssignTrees \cup BlockTrees \cup DeclTrees
    \cup HeldArgTrees \cup OrderTrees

Ids == {"x", "f"}
Symbols == {Variable("Mutable", TBuiltin("Number")), Type(TBuiltin("Bool")),
            Function(<<>>, TBuiltin("Number")), Function(<<TBuiltin("Bool")>>, TUnit)}
\* the scope flatten_decls_into is handed: empty, or with x declared
Targets == {Scope_new} \cup {Scope_insert(Scope_new, "x", sym) : sym \in Symbols}

(***************************************************************************)
(* ScopeStack driven through its API, as the unit tests do                 *)
(***************************************************************************)
NoCall == [op |-> "none", id |-> "", sym |-> NoSymbol, ok |-> FALSE, fresh |-> FALSE,
           before |-> <<>>, target |-> Scope_new, out |-> Scope_new]

ScopeInit ==
    /\ stack = ScopeStack_new(Scope_new)
    /\ first = <<Scope_new>>
    /\ last = NoCall
    /\ tree = with_spans(SSequence(<<>>), <<>>)
    /\ binder = Binder_new(Scope_new)
    /\ bound = NotBound
    /\ taken = <<>>
    /\ phase = "new"
    /\ prev = [e |-> NotBound, d |-> <<>>, run |-> 0]

\* scopes.current_mut().try_declare(id, sym); current_mut needs a scope
TryDeclare(id, sym) ==
    /\ Len(stack) > 0
    /\ stack' = declare_current(stack, id, sym)
    /\ first' = [first EXCEPT ![Len(stack)] =
                    IF id \in DOMAIN @ THEN @ ELSE Scope_insert(@, id, sym)]
    /\ last' = [NoCall EXCEPT !.op = "try_declare", !.id = id, !.sym = sym,
                    !.ok = try_declare(stack[Len(stack)], id, sym).ok,
                    !.fresh = id \notin DOMAIN first[Len(stack)],
                    !.before = stack]
    /\ UNCHANGED bindVars

Push ==
    /\ Len(stack) < MaxScopes
    /\ stack' = push(stack, Scope_new)
    /\ first' = Append(first, Scope_new)
    /\ last' = [NoCall EXCEPT !.op = "push", !.before = stack]
    /\ UNCHANGED bindVars

Pop ==
    /\ stack' = pop(stack)
    /\ first' = IF Len(first) = 0 THEN first ELSE SubSeq(first, 1, Len(first) - 1)
    /\ last' = [NoCall EXCEPT !.op = "pop", !.before = stack]
    /\ UNCHANGED bindVars

Lookup(id) ==
    /\ last' = [NoCall EXCEPT !.op = "lookup", !.id = id, !.sym = lookup(stack, id)]
    /\ UNCHANGED <<stack, first, bindVars>>

\* scopes.flatten_decls_into(&mut target), last.out is target afterwards
FlattenDeclsInto(seed, target) ==
    /\ last' = [NoCall EXCEPT !.op = "flatten", !.before = stack, !.target = target,
                    !.out = flatten_decls_into(stack, target, seed)]
    /\ UNCHANGED <<stack, first, bindVars>>

ScopeNext ==
    \/ \E id \in Ids, sym \in Symbols : TryDeclare(id, sym)
    \/ Push
    \/ Pop
    \/ \E id \in Ids : Lookup(id)
    \/ \E seed \in Seeds, target \in Targets : FlattenDeclsInto(seed, target)

ScopeSpec == ScopeInit /\ [][ScopeNext]_vars

(***************************************************************************)
(* Binder driven by its caller: bind_tree on a fresh Binder, then          *)
(* take_diagnostics; the same tree is then bound by a second fresh Binder  *)
(* in a process with any HashMap iteration order.                          *)
(***************************************************************************)
Init ==
    /\ stack = ScopeStack_new(Scope_new)
    /\ first = <<Scope_new>>
    /\ last = NoCall
    /\ tree \in {with_spans(t, <<>>) : t \in Trees}
    /\ binder = Binder_new(Scope_new)
    /\ bound = NotBound
    /\ taken = <<>>
    /\ phase = "new"
    /\ prev = [e |-> NotBound, d |-> <<>>, run |-> 0]

BindTree ==
    /\ phase = "new"
    /\ LET r == bind_tree(tree, binder)
       IN /\ binder' = r.b
          /\ bound' = r.e
          /\ phase' = IF r.b.abort THEN "aborted" ELSE "bound"
    /\ UNCHANGED <<tree, taken, prev, scopeVars>>

TakeDiagnostics ==
    /\ phase \in {"bound", "taken"}
    /\ LET r == take_diagnostics(binder)
       IN /\ taken' = r.out
          /\ binder' = r.b
    /\ phase' = IF phase = "bound" THEN "taken" ELSE "drained"
    /\ UNCHANGED <<tree, bound, prev, scopeVars>>

NewBinder ==
    /\ phase = "taken"
    /\ prev.run = 0
    /\ prev' = [e |-> bound, d |-> taken, run |-> 1]
    /\ \E s \in Seeds : binder' = [Binder_new(Scope_new) EXCEPT !.seed = s]
    /\ bound' = NotBound
    /\ taken' = <<>>
    /\ phase' = "new"
    /\ UNCHANGED <<tree, scopeVars>>

Next == BindTree \/ TakeDiagnostics \/ NewBinder

Spec == Init /\ [][Next]_vars

(***************************************************************************)
(* Vocabulary of the properties                                            *)
(***************************************************************************)
Range(q) == {q[i] : i \in DOMAIN q}
Count(x, q) == Cardinality({i \in DOMAIN q : q[i] = x})
SamePerm(p, q) == Len(p) = Len(q) /\ \A x \in Range(p) \cup Range(q) : Count(x, p) = Count(x, q)

\* p occurs in q as a subsequence, in order
RECURSIVE IsSubseq(_, _)
IsSubseq(p, q) ==
    IF Len(p) = 0 THEN TRUE
    ELSE IF Len(q) = 0 THEN FALSE
    ELSE IF Head(p) = Head(q) THEN IsSubseq(Tail(p), Tail(q))
    ELSE IsSubseq(p, Tail(q))

IsPrefix(p, q) == Len(p) <= Len(q) /\ SubSeq(q, 1, Len(p)) = p

RECURSIVE NodeAt(_, _)
NodeAt(e, path) == IF Len(path) = 0 THEN e ELSE NodeAt(e.kids[Head(path)], Tail(path))

\* a type reference on which bind_type stops the process
RECURSIVE HasFatalTypeRef(_)
HasFatalTypeRef(e) ==
    \/ e.ty.ref \in {"Array", "Tuple", "Missing"}
    \/ \E i \in DOMAIN e.params : e.params[i].typ.ref \in {"Array", "Tuple", "Missing"}
    \/ \E i \in DOMAIN e.kids : HasFatalTypeRef(e.kids[i])

\* a `let id` somewhere in e
RECURSIVE HasDecl(_, _)
HasDecl(e, id) ==
    \/ e.kind = "Declaration" /\ e.id = id
    \/ \E i \in DOMAIN e.kids : HasDecl(e.kids[i], id)

\* an Error node or a Typ::Error somewhere in the semantic tree e
RECURSIVE HasError(_)
HasError(e) ==
    \/ e.kind = "Error"
    \/ e.typ = TError
    \/ e.ty = TError
    \/ \E i \in DOMAIN e.params : e.params[i].ty = TError
    \/ \E i \in DOMAIN e.kids : HasError(e.kids[i])

History == binder.history
Events(ev) == {i \in DOMAIN History : History[i].ev = ev}
Raised == [i \in 1..Cardinality(Events("diag")) |->
            SelectSeq(History, LAMBDA h : h.ev = "diag")[i].d]

\* the diagnostics pushed within history[from..to] by Binders nested at `levels`
RaisedIn(from, to, levels) ==
    LET window == SubSeq(History, from, to)
        picked == SelectSeq(window, LAMBDA h : h.ev = "diag" /\ h.level \in levels)
    IN [i \in DOMAIN picked |-> picked[i].d]

\* the "function" event that a "merge" event closes
EntryOf(m) ==
    CHOOSE f \in Events("function") :
        f < m /\ History[f].at = History[m].at /\ History[f].level = History[m].level

\* what the annotations of a function declaration say its symbol is
TypOfRef(ty_ref) ==
    IF ty_ref.ref = "Unit" THEN TUnit
    ELSE IF ty_ref.ref = "Simple" /\ ty_ref.name \in {"String", "Bool", "Number"}
         THEN TBuiltin(ty_ref.name)
    ELSE TError
SignatureOf(func) ==
    Function([i \in DOMAIN func.params |-> TypOfRef(func.params[i].typ)], TypOfRef(func.ty))

Functions(t) == {i \in DOMAIN t.kids : t.kids[i].kind = "Function"}

\* the uses of `id` that bind_identifier met under the node at `path`
UsesUnder(path, id) ==
    {i \in Events("ident") : History[i].id = id /\ IsPrefix(path, History[i].at)}

CantFind(id, at) ==
    Diagnostic("Can't find '{}' in this scope", <<id>>, TokSpan(at, "token", 0))

(***************************************************************************)
(* Properties                                                              *)
(***************************************************************************)

\* C1: a bind of a tree without Array, Tuple or Missing type references always
\* returns a tree; it never panics, and the re-lookup in bind_call always
\* finds a Symbol::Function
C1_NeverFail ==
    ~HasFatalTypeRef(tree) =>
        /\ phase # "aborted"
        /\ \A i \in Events("call") : History[i].sym.sym = "Function"

\* C2: in every scope the first try_declare of an identifier returns true and
\* fixes its symbol; a later one returns false and changes no lookup
C2_InsertOnce ==
    /\ stack = first
    /\ last.op = "try_declare" =>
        /\ last.ok = last.fresh
        /\ ~last.ok => \A id \in Ids : lookup(stack, id) = lookup(last.before, id)

C2_Witness ==
    /\ last.op = "try_declare"
    /\ ~last.ok
    /\ last.sym # stack[Len(stack)][last.id]

\* C3: lookup returns the symbol of the innermost scope on the stack that
\* declares the identifier, None if no scope does
C3_Shadowing ==
    last.op = "lookup" =>
        LET declaring == {i \in DOMAIN stack : last.id \in DOMAIN stack[i]}
        IN IF declaring = {} THEN last.sym = NoSymbol
           ELSE \E i \in declaring : /\ \A j \in declaring : j <= i
                                     /\ last.sym = stack[i][last.id]

C3_Witness ==
    /\ last.op = "lookup"
    /\ Len(stack) = 2
    /\ last.id \in DOMAIN stack[1] \cap DOMAIN stack[2]
    /\ stack[1][last.id] # stack[2][last.id]
    /\ last.sym = stack[2][last.id]

\* the uses of function j's name in sibling i (in its body, if i is a function)
\* resolve to the symbol j's declaration describes, with no "Can't find"; a
\* `let` of that name would shadow it
ResolvesTo(i, j) ==
    LET fj == tree.kids[j]
    IN ~HasDecl(tree, fj.id) =>
        \A u \in UsesUnder(<<i>>, fj.id) :
            /\ History[u].sym = SignatureOf(fj)
            /\ CantFind(fj.id, History[u].at) \notin Range(binder.diagnostics)

C5_NoClosures ==
    phase = "bound" =>
        \A f \in Events("function") : \A u \in Events("ident") :
            LET func == NodeAt(tree, History[f].at)
                id == History[u].id
                outside == lookup(History[f].scopes, id)
            IN /\ f < u
               /\ IsPrefix(History[f].at \o <<1>>, History[u].at)
               /\ History[u].level = History[f].level + 1
               /\ ~HasDecl(func, id)
               => /\ outside.sym = "Variable" /\ (\A p \in DOMAIN func.params : func.params[p].id # id)
                     => /\ History[u].sym = NoSymbol
                        /\ CantFind(id, History[u].at) \in Range(binder.diagnostics)
                  /\ outside.sym = "Function" => History[u].sym = outside

\* C6: two fresh Binders, whatever the HashMap iteration order of their
\* process, return the same tree and the same diagnostics for the same input
C6_Determinism ==
    prev.run = 1 =>
        /\ phase # "aborted"
        /\ phase \in {"bound", "taken", "drained"} => bound = prev.e
        /\ phase = "taken" => taken = prev.d

C6_Witness ==
    /\ prev.run = 1
    /\ phase = "taken"
    /\ binder.seed = 1
    /\ taken # <<>>
    /\ Cardinality(Functions(tree)) = 2 /\ Events("merge") # {}

\* C7: take_diagnostics returns every diagnostic pushed since the Binder was
\* made, those of the Binder itself in the order they were pushed, and empties
\* the list; a second take returns nothing
C7_DrainOnce ==
    /\ phase = "taken" =>
        /\ binder.diagnostics = <<>>
        /\ SamePerm(taken, Raised)
        /\ IsSubseq(RaisedIn(1, Len(History), {0}), taken)
    /\ phase = "drained" => taken = <<>> /\ binder.diagnostics = <<>>

C7_Witness ==
    /\ phase = "drained"
    /\ Len(Raised) >= 2
    /\ \E i \in Events("diag") : History[i].level = 0

\* C8: a returned tree that holds an Error node or a Typ::Error comes with at
\* least one diagnostic
C8_ErrorImpliesDiagnostic ==
    phase = "bound" /\ HasError(bound) => binder.diagnostics # <<>>

\* C9: a Call node of a callee that resolved to a function holds every
\* argument of the syntax call
C9_CallArgumentsComplete ==
    phase = "bound" =>
        \A c \in Events("call") :
            History[c].sym.sym = "Function" =>
                History[c].n = Len(NodeAt(tree, History[c].at).kids) - 1

\* C10: what a nested Binder raised, at any depth, is in the enclosing
\* Binder's list after bind_function, each diagnostic once and in the nested
\* Binder's order, and the nested Binder's list is left empty
C10_NestedDiagnosticsMerged ==
    phase = "bound" =>
        /\ SamePerm(binder.diagnostics, Raised)
        /\ \A m \in Events("merge") :
            LET f == EntryOf(m)
                deeper == {l \in 0..Len(History) : l > History[m].level}
            IN /\ SamePerm(History[m].ds, RaisedIn(f, m, deeper))
               /\ IsSubseq(RaisedIn(f, m, {History[m].level + 1}), History[m].ds)
               /\ IsSubseq(History[m].ds, binder.diagnostics)
               /\ History[m].n = 0

C10_Witness ==
    /\ phase = "bound"
    /\ \E m \in Events("merge") :
        /\ History[m].level = 1
        /\ Len(History[m].ds) >= 2
        /\ \E i \in EntryOf(m)..m : History[i].ev = "diag" /\ History[i].level = 1

BuiltinNames == {"String", "Bool", "Number"}

\* a `let`, a function or a parameter named id somewhere in e
RECURSIVE Declares(_, _)
Declares(e, id) ==
    \/ e.kind \in {"Declaration", "Function"} /\ e.id = id
    \/ \E i \in DOMAIN e.params : e.params[i].id = id
    \/ \E i \in DOMAIN e.kids : Declares(e.kids[i], id)

UndefinedType(ty_ref) == Diagnostic("Reference to undefined type", <<>>, ty_ref.span)

\* C11: wherever bind_type meets an annotation String, Bool or Number that no
\* user declaration shadows, in a nested Binder too, the name resolves to the
\* builtin type and no "Reference to undefined type" is raised for it
C11_BuiltinTypesRegistered ==
    \A i \in Events("type") :
        /\ History[i].ty.ref = "Simple"
        /\ History[i].ty.name \in BuiltinNames
        /\ ~Declares(tree, History[i].ty.name)
        => /\ History[i].sym = Type(TBuiltin(History[i].ty.name))
           /\ UndefinedType(History[i].ty) \notin Range(Raised)

FatalRefs == {"Array", "Tuple", "Missing"}
IsDiag(i, d) == i \in DOMAIN History /\ History[i].ev = "diag" /\ History[i].d = d

TooFew(call) ==
    Diagnostic("Too few arguments to call", <<>>,
               Span_new(Pos(call.path, "open_paren", 0, "start"),
                        Pos(call.path, "close_paren", 0, "end")))
\* the "Too many arguments" diagnostics raised for the call, whatever their start
TooManyOf(call) ==
    {i \in DOMAIN Raised : /\ Raised[i].msg = "Too many arguments to call"
                           /\ Raised[i].span.end = Pos(call.path, "close_paren", 0, "start")}

\* C13: a call of a function with p parameters and a arguments raises one
\* "Too few arguments to call" over the parentheses iff a < p, and one "Too
\* many arguments to call" from the start of argument p+1 to the closing
\* parenthesis iff a > p; never both
C13_CallArity ==
    \A c \in Events("call") :
        LET call == NodeAt(tree, History[c].at)
            p == Len(History[c].sym.params)
            a == Len(call.kids) - 1
        IN History[c].sym.sym = "Function" =>
            /\ Count(TooFew(call), Raised) = IF a < p THEN 1 ELSE 0
            /\ Cardinality(TooManyOf(call)) = IF a > p THEN 1 ELSE 0
            /\ \A i \in TooManyOf(call) :
                    Raised[i].span.start = Pos(call.kids[p + 2].path, "expr", 0, "start")
            /\ ~(TooFew(call) \in Range(Raised) /\ TooManyOf(call) # {})

C13_Witness ==
    \E c \in Events("call") :
        /\ History[c].sym.sym = "Function"
        /\ Len(History[c].sym.params) = 1
        /\ Len(NodeAt(tree, History[c].at).kids) = 3
        /\ TooManyOf(NodeAt(tree, History[c].at)) # {}

\* the "node" events of the syntax nodes of a kind, and the one of a node
NodesOf(kind) == {k \in Events("node") : NodeAt(tree, History[k].at).kind = kind}
Bound(node) == CHOOSE k \in Events("node") : History[k].at = node.path
IsBound(node) == \E k \in Events("node") : History[k].at = node.path
TypOf(node) == History[Bound(node)].typ
\* how many diagnostics with this message were raised on this span
Times(msg, sp) == Cardinality({i \in DOMAIN Raised : Raised[i].msg = msg /\ Raised[i].span = sp})

\* C14: bind_if_else returns an IfThenElse node over its three bound children,
\* typed as the then branch; it raises the condition diagnostic once iff the
\* condition is not Bool and the mismatch diagnostic once iff the branch
\* types (Unknown when absent) differ
C14_IfElseTyping ==
    \A k \in NodesOf("IfThenElse") :
        LET if_else == NodeAt(tree, History[k].at)
            cond_ty == unwrap_or(TypOf(if_else.kids[1]), TUnknown)
            true_typ == unwrap_or(TypOf(if_else.kids[2]), TUnknown)
            false_typ == unwrap_or(TypOf(if_else.kids[3]), TUnknown)
            cond_msg == "Condition expression should be 'Bool' but is '{}'"
            cond_span == span(if_else.kids[1])
            mism_msg == "If and else have mismatched types. '{}' and '{}'"
            mism_span == Span_enclosing(span(if_else.kids[2]), span(if_else.kids[3]))
        IN /\ History[k].id = "IfThenElse" /\ History[k].n = 3
           /\ \A i \in 1..3 : IsBound(if_else.kids[i]) /\ Bound(if_else.kids[i]) < k
           /\ History[k].typ = TypOf(if_else.kids[2])
           /\ Times(cond_msg, cond_span) = IF cond_ty # TBuiltin("Bool") THEN 1 ELSE 0
           /\ Times(mism_msg, mism_span) = IF true_typ # false_typ THEN 1 ELSE 0
           /\ Count(Diagnostic(cond_msg, <<TypName(cond_ty)>>, cond_span), Raised)
                = Times(cond_msg, cond_span)
           /\ Count(Diagnostic(mism_msg, <<TypName(true_typ), TypName(false_typ)>>, mism_span),
                    Raised) = Times(mism_msg, mism_span)

C14_Witness ==
    \E k \in NodesOf("IfThenElse") :
        LET if_else == NodeAt(tree, History[k].at)
        IN /\ TypOf(if_else.kids[1]) = TBuiltin("Bool")
           /\ TypOf(if_else.kids[2]) = TBuiltin("Number")
           /\ TypOf(if_else.kids[3]) = TBuiltin("Bool")
           /\ History[k].typ = TBuiltin("Number")
           /\ Times("If and else have mismatched types. '{}' and '{}'",
                    Span_enclosing(span(if_else.kids[2]), span(if_else.kids[3]))) = 1

NotMutable(infix, id) ==
    Diagnostic("Can't assign to '{}', it isn't mutable", <<id>>, tok_span(infix, "op_token"))
\* every diagnostic bind_assign itself raises for the assignment is on one of
\* these spans
RaisedByAssign(infix) ==
    {i \in DOMAIN Raised : Raised[i].span \in {tok_span(infix, "op_token"),
                                               tok_span(infix.kids[1], "token")}}
\* the assignment is in the body of a function with a parameter named id
ToParameter(at, id) ==
    \E n \in 1..Len(at) :
        LET func == NodeAt(tree, SubSeq(at, 1, n))
        IN func.kind = "Function" /\ \E p \in DOMAIN func.params : func.params[p].id = id

\* C15: assigning a value of its own type to an immutable variable raises the
\* one diagnostic "Can't assign to .., it isn't mutable" and nothing else,
\* binds the right-hand side and returns an Assignment node of the variable's
\* type; assigning to a mutable variable or to a parameter raises no such
\* diagnostic
C15_ImmutableAssignNonFatal ==
    \A a \in Events("assign") :
        LET infix == NodeAt(tree, History[a].at)
            sym == History[a].sym
        IN sym.sym = "Variable" /\ ~binder.abort =>
            /\ sym.style = "Immutable" /\ TypOf(infix.kids[2]) = sym.typ =>
                /\ Cardinality(RaisedByAssign(infix)) = 1
                /\ Count(NotMutable(infix, History[a].id), Raised) = 1
                /\ IsBound(infix.kids[2]) /\ Bound(infix.kids[2]) > a
                /\ History[Bound(infix)].id = "Assignment"
                /\ History[Bound(infix)].n = 1
                /\ History[Bound(infix)].typ = sym.typ
            /\ sym.style = "Mutable" => NotMutable(infix, History[a].id) \notin Range(Raised)
            /\ ToParameter(History[a].at, History[a].id) /\ ~HasDecl(tree, History[a].id) =>
                NotMutable(infix, History[a].id) \notin Range(Raised)

C15_Witness ==
    \E a \in Events("assign") :
        LET infix == NodeAt(tree, History[a].at)
        IN /\ History[a].sym = Variable("Immutable", TBuiltin("Number"))
           /\ TypOf(infix.kids[2]) = TBuiltin("Number")
           /\ Raised = <<NotMutable(infix, "x")>>
           /\ History[Bound(infix)].id = "Assignment"
           /\ phase = "bound"

IsNode(i, at, kind, typ) ==
    /\ i \in DOMAIN History /\ History[i].ev = "node" /\ History[i].at = at
    /\ History[i].id = kind /\ History[i].typ = typ

\* C16: bind_identifier on a name that lookup does not find raises one "Can't
\* find" and returns the Error sentinel; on a Variable it returns an
\* Identifier of the variable's type, on a Function one of type Function(id),
\* on a Type one with no type, and then raises nothing and leaves the scope
\* stack as it was
C16_IdentifierBinding ==
    \A u \in Events("ident") :
        LET id == History[u].id
            at == History[u].at
            sym == History[u].sym
        IN /\ sym = lookup(History[u].scopes, id)
           /\ sym = NoSymbol =>
                /\ IsDiag(u + 1, CantFind(id, at))
                /\ Times(CantFind(id, at).msg, CantFind(id, at).span) = 1
                /\ IsNode(u + 2, at, "Error", TError) /\ History[u + 2].n = 0
           /\ sym.sym = "Variable" => IsNode(u + 1, at, "Identifier", sym.typ)
           /\ sym.sym = "Function" => IsNode(u + 1, at, "Identifier", TFunction(id))
           /\ sym.sym = "Type" => IsNode(u + 1, at, "Identifier", None)
           /\ sym # NoSymbol =>
                /\ History[u + 1].scopes = History[u].scopes
                /\ Times(CantFind(id, at).msg, CantFind(id, at).span) = 0

C16_Witness ==
    /\ \E u \in Events("ident") :
            History[u].sym.sym = "Function" /\ History[u + 1].typ = TFunction(History[u].id)
    /\ \E u \in Events("ident") :
            History[u].sym = NoSymbol /\ IsDiag(u + 1, CantFind(History[u].id, History[u].at))
    /\ phase = "bound"

DoesntMatch(decl) ==
    Diagnostic("Initialiser doesn't match declaration type for '{}'", <<decl.id>>,
               tok_span(decl, "id_tok"))
\* what bind_type returned for the annotation of the declaration
Annotated(decl) == History[CHOOSE i \in Events("type") : History[i].ty = decl.ty].typ
DeclaredAs(k, decl, typ, times) ==
    /\ History[k].typ = typ
    /\ Count(DoesntMatch(decl), Raised) = times
    /\ Times(DoesntMatch(decl).msg, DoesntMatch(decl).span) = times

\* C17 as stated: a declaration binds to a Declaration node; without an
\* annotation it has the initialiser's type and raises nothing; with an
\* annotation that differs from the initialiser's type it raises one
\* "Initialiser doesn't match declaration type" and has type Error; with an
\* annotation equal to the initialiser's type it has that type and raises
\* nothing
C17_DeclarationTyping_AsStated ==
    \A k \in NodesOf("Declaration") :
        LET decl == NodeAt(tree, History[k].at)
            init == TypOf(decl.kids[1])
        IN /\ History[k].id = "Declaration"
           /\ decl.ty.ref = "None" => DeclaredAs(k, decl, init, 0)
           /\ decl.ty.ref # "None" /\ Annotated(decl) # init => DeclaredAs(k, decl, TError, 1)
           /\ decl.ty.ref # "None" /\ Annotated(decl) = init =>
                DeclaredAs(k, decl, Annotated(decl), 0)

\* C17: as above, where the mismatch is raised only if the initialiser has a
\* type and it differs from the annotation; an initialiser with no type (the
\* name of a type) is taken to match, and the declaration has the annotated type
C17_DeclarationTyping ==
    \A k \in NodesOf("Declaration") :
        LET decl == NodeAt(tree, History[k].at)
            init == TypOf(decl.kids[1])
        IN /\ History[k].id = "Declaration"
           /\ decl.ty.ref = "None" => DeclaredAs(k, decl, init, 0)
           /\ decl.ty.ref # "None" /\ init # None /\ Annotated(decl) # init =>
                DeclaredAs(k, decl, TError, 1)
           /\ decl.ty.ref # "None" /\ (init = None \/ Annotated(decl) = init) =>
                DeclaredAs(k, decl, Annotated(decl), 0)

C17_Witness ==
    \E k \in NodesOf("Declaration") :
        LET decl == NodeAt(tree, History[k].at)
        IN /\ decl.ty.ref = "Simple"
           /\ Annotated(decl) = TBuiltin("Number")
           /\ TypOf(decl.kids[1]) = TBuiltin("Bool")
           /\ DeclaredAs(k, decl, TError, 1)
           /\ phase = "bound"

\* the paths of the nodes of e, e at path p
RECURSIVE Paths(_)
Paths(e) == {e.path} \cup UNION {Paths(e.kids[i]) : i \in DOMAIN e.kids}
Front(q) == SubSeq(q, 1, Len(q) - 1)
\* the function declarations that are members of a sequence, with a name that
\* nothing else in the tree declares
BlockFunctions ==
    {p \in Paths(tree) :
        /\ Len(p) > 0
        /\ NodeAt(tree, p).kind = "Function"
        /\ NodeAt(tree, Front(p)).kind = "Sequence"
        /\ NodeAt(tree, p).id \notin BuiltinNames
        /\ ~HasDecl(tree, NodeAt(tree, p).id)
        /\ \A q \in Paths(tree) :
                LET n == NodeAt(tree, q)
                IN /\ n.kind = "Function" /\ q # p => n.id # NodeAt(tree, p).id
                   /\ \A i \in DOMAIN n.params : n.params[i].id # NodeAt(tree, p).id}

\* C18: a function declared in a block, the top-level sequence, a loop body
\* or a function body alike, is found as a function by every use of its name
\* in the other expressions and sibling functions of that block, before or
\* after the declaration
C18_TwoPhasePerBlock ==
    phase = "bound" =>
        \A p \in BlockFunctions : \A u \in Events("ident") :
            /\ History[u].id = NodeAt(tree, p).id
            /\ IsPrefix(Front(p), History[u].at)
            /\ ~IsPrefix(p, History[u].at)
            => /\ History[u].sym.sym = "Function"
               /\ CantFind(History[u].id, History[u].at) \notin Range(Raised)

TypeMismatch(infix, id) ==
    Diagnostic("Type mismatch in assignment to '{}' ", <<id>>, tok_span(infix, "op_token"))

\* C19: an assignment to a variable whose right-hand side has another type
\* than the variable raises one "Type mismatch in assignment", and the
\* Assignment node always has the variable's declared type
C19_AssignTypeFallback ==
    phase = "bound" =>
        \A a \in Events("assign") :
            LET infix == NodeAt(tree, History[a].at)
                sym == History[a].sym
                rhs == TypOf(infix.kids[2])
            IN sym.sym = "Variable" =>
                /\ rhs # None /\ rhs # sym.typ =>
                        Count(TypeMismatch(infix, History[a].id), Raised) = 1
                /\ History[Bound(infix)].id = "Assignment"
                /\ History[Bound(infix)].typ = sym.typ

\* the diagnostics the construct `parent` raises about its child number i
AboutChild(parent, i) ==
    LET child == parent.kids[i]
    IN IF parent.kind = "IfThenElse" /\ i = 1
       THEN Times("Condition expression should be 'Bool' but is '{}'", span(child))
       ELSE IF parent.kind = "IfThenElse"
       THEN Times("If and else have mismatched types. '{}' and '{}'",
                  Span_enclosing(span(parent.kids[2]), span(parent.kids[3])))
       ELSE IF parent.kind = "Infix" /\ parent.op # "Assign"
       THEN Times("Use of operator {:?} with invalid arguments",
                  Span_enclosing(span(parent.kids[1]), span(parent.kids[2])))
       ELSE IF parent.kind = "Call" /\ i = 1
       THEN Times("Called item is not a function", span(child))
       ELSE IF parent.kind = "Call"
       THEN Times("Invalid argument. Expected '{}' but found '{}'", span(child))
       ELSE 0

\* C20: a sub-expression that bound to Typ::Error with its failure diagnosed
\* (a condition, a branch, an infix operand, a callee, a checked argument)
\* and an annotation that resolved to Typ::Error make the enclosing construct
\* raise nothing more
C20_NoCascades ==
    /\ \A c \in Events("node") :
            /\ History[c].typ = TError
            /\ History[c].id # "Function"
            /\ Len(History[c].at) > 0
            => AboutChild(NodeAt(tree, Front(History[c].at)),
                          History[c].at[Len(History[c].at)]) = 0
    /\ \A i \in Events("type") :
            /\ History[i].typ = TError
            /\ NodeAt(tree, History[i].at).kind = "Declaration"
            => DoesntMatch(NodeAt(tree, History[i].at)) \notin Range(Raised)

\* the smallest element of a non-empty set of numbers
Least(S) == CHOOSE i \in S : \A j \in S : i <= j

\* the type bind_function bound for parameter i of func, entered at event f
ParamTyp(f, func, i) ==
    IF func.params[i].typ.ref = "None" THEN TError
    ELSE History[CHOOSE k \in Events("type") :
                    /\ k > f
                    /\ History[k].ty = func.params[i].typ
                    /\ History[k].level = History[f].level].typ

\* the uses of parameter names that bind_identifier met in the body of the
\* function entered at event f, for names the body declares nothing of
ParameterUses(f) ==
    LET func == NodeAt(tree, History[f].at)
    IN {u \in Events("ident") :
            /\ f < u
            /\ IsPrefix(History[f].at \o <<1>>, History[u].at)
            /\ History[u].level = History[f].level + 1
            /\ \E i \in DOMAIN func.params : func.params[i].id = History[u].id
            /\ ~Declares(func.kids[1], History[u].id)}

\* C21: in the body of a function every use of a parameter's name, with no
\* local declaration of that name, finds Symbol::Variable(Mutable, T), T the
\* type bound for the first parameter of that name, also when a function of
\* that name is visible where the function is declared
C21_ParametersAreMutableVariables ==
    phase = "bound" =>
        \A f \in Events("function") : \A u \in ParameterUses(f) :
            LET func == NodeAt(tree, History[f].at)
                named == {i \in DOMAIN func.params : func.params[i].id = History[u].id}
            IN History[u].sym = Variable("Mutable", ParamTyp(f, func, Least(named)))

\* C22: when bind_declaration has returned for `let x` or `var x`, lookup(x) on
\* the scope stack is Symbol::Variable of the declared style and of the type
\* of the Declaration node (Unknown if it has none), also when the current
\* scope declared x before
C22_DeclarationInScope ==
    \A k \in Events("node") :
        History[k].id = "Declaration" =>
            LET decl == NodeAt(tree, History[k].at)
            IN lookup(History[k].scopes, decl.id) =
                    Variable(decl.op, unwrap_or(History[k].typ, TUnknown))

\* the events of the bind of the sub-tree at `path`
EventsUnder(path) ==
    {i \in DOMAIN History :
        IF History[i].ev = "diag" THEN IsPrefix(path, History[i].d.span.start.at)
        ELSE IF History[i].ev = "type" THEN FALSE
        ELSE IsPrefix(path, History[i].at)}

\* the uses of the declared name that the Binder of the declaration met in the
\* initialiser, in the scopes of the declaration
UsesInInitialiser(d) ==
    {u \in UsesUnder(History[d].at \o <<1>>, History[d].id) :
        /\ History[u].level = History[d].level
        /\ Len(History[u].scopes) = Len(History[d].scopes)}

\* nothing but the declaration at path p declares its name: no other `let`, no
\* function, no parameter, and it is no builtin type
DeclaredOnlyAt(p) ==
    /\ NodeAt(tree, p).id \notin BuiltinNames
    /\ \A q \in Paths(tree) :
        LET n == NodeAt(tree, q)
        IN /\ q # p /\ n.kind \in {"Declaration", "Function"} => n.id # NodeAt(tree, p).id
           /\ \A i \in DOMAIN n.params : n.params[i].id # NodeAt(tree, p).id

\* C23: the initialiser of a declaration is bound, and its diagnostics are
\* pushed, before the name is declared; a use of the name in the initialiser
\* does not see the declaration: with no other declaration of the name it
\* finds nothing and "Can't find '{}' in this scope" is raised
C23_InitialiserBeforeDeclaration ==
    \A d \in Events("declare") :
        /\ \A i \in EventsUnder(History[d].at \o <<1>>) : i < d
        /\ DeclaredOnlyAt(History[d].at) =>
            /\ lookup(History[d].scopes, History[d].id) = NoSymbol
            /\ \A u \in UsesInInitialiser(d) :
                /\ History[u].sym = NoSymbol
                /\ \E i \in Events("diag") :
                    /\ u < i /\ i < d
                    /\ History[i].d = CantFind(History[d].id, History[u].at)

\* `let x = x  x`: the initialiser does not find x, the use after it does
C23_Witness ==
    /\ phase = "bound"
    /\ \E d \in Events("declare") :
        /\ DeclaredOnlyAt(History[d].at)
        /\ UsesInInitialiser(d) # {}
        /\ \E u \in Events("ident") :
            /\ u > d
            /\ History[u].id = History[d].id
            /\ History[u].sym = History[d].sym

\* the call of bind_expression that the "node" event k is the return of
EnterOf(k) ==
    CHOOSE e \in Events("enter") :
        e < k /\ History[e].at = History[k].at /\ History[e].level = History[k].level

\* scope `after` holds every binding of scope `before`, unchanged
Extends(after, before) ==
    \A id \in DOMAIN before : id \in DOMAIN after /\ after[id] = before[id]

\* the declarations bound in the block that is child number i of the node
\* returned at event k, by then
DeclaredInBlock(k, i) ==
    {d \in Events("declare") : d < k /\ IsPrefix(History[k].at \o <<i>>, History[d].at)}

\* C24: when a call of bind_expression returns, the scope stack is as deep as
\* when it was called, every scope under the top one is unchanged and the top
\* one has only gained symbols; the stack is never empty during a bind; and
\* what a loop body or a function body declares is not visible once the loop
\* or the function is bound
C24_BlocksBalanced ==
    /\ \A i \in Events("enter") \cup Events("node") : Len(History[i].scopes) >= 1
    /\ \A k \in Events("node") :
        LET entry == History[EnterOf(k)].scopes
            exit == History[k].scopes
        IN /\ Len(exit) = Len(entry)
           /\ \A i \in 1..(Len(entry) - 1) : exit[i] = entry[i]
           /\ Extends(exit[Len(entry)], entry[Len(entry)])
           /\ History[k].id = "Loop" =>
                \A d \in DeclaredInBlock(k, 2) :
                    lookup(exit, History[d].id) = lookup(entry, History[d].id)
           /\ History[k].id = "Function" =>
                \A d \in DeclaredInBlock(k, 1) :
                    lookup(exit, History[d].id) = lookup(entry, History[d].id)

\* a loop and a function are bound whose body declared a variable that
\* nothing outside declares, and the use after them does not find it
C24_Witness ==
    /\ phase = "bound"
    /\ \E k \in Events("node") : \E i \in {1, 2} : \E d \in DeclaredInBlock(k, i) :
        \E u \in Events("ident") :
            /\ History[k].id \in {"Loop", "Function"}
            /\ History[d].level + Len(History[d].scopes) > History[k].level + Len(History[k].scopes)
            /\ lookup(History[k].scopes, History[d].id) = NoSymbol
            /\ u > k
            /\ History[u].id = History[d].id
            /\ History[u].level = History[k].level
            /\ History[u].sym = NoSymbol

\* the scopes of the stack that bind id to a Symbol::Function
FunctionScopes(scopes, id) ==
    {i \in DOMAIN scopes : id \in DOMAIN scopes[i] /\ scopes[i][id].sym = "Function"}

Greatest(S) == CHOOSE i \in S : \A j \in S : j <= i

Min(a, b) == IF a < b THEN a ELSE b

\* the "Invalid argument" diagnostics raised on the argument
InvalidArgument(arg) ==
    Times("Invalid argument. Expected '{}' but found '{}'", span(arg))

UndefinedTypeRefs ==
    {r \in UNION {{NodeAt(tree, p).ty}
                  \cup {NodeAt(tree, p).params[i].typ : i \in DOMAIN NodeAt(tree, p).params} :
                  p \in Paths(tree)} :
        r.ref = "Simple" /\ r.name \notin BuiltinNames}

\* C27: after a complete bind_tree the list holds exactly one "Reference to
\* undefined type" for each type reference of the tree that names an undefined
\* type, in a declaration, a parameter or a return type
C27_OneDiagnosticPerTypeRef ==
    phase = "bound" =>
        \A r \in UndefinedTypeRefs : Count(UndefinedType(r), binder.diagnostics) = 1

\* node p is visited before node q in a pre-order walk of the syntax tree
RECURSIVE PreOrderBefore(_, _)
PreOrderBefore(p, q) ==
    IF Len(q) = 0 THEN FALSE
    ELSE IF Len(p) = 0 THEN TRUE
    ELSE IF Head(p) # Head(q) THEN Head(p) < Head(q)
    ELSE PreOrderBefore(Tail(p), Tail(q))

\* the syntax node a diagnostic is raised for: the one its span starts in
RaisedFor(d) == d.span.start.at

\* C28: in the list a complete bind leaves, no diagnostic comes after a
\* diagnostic of a node that a pre-order walk of the syntax tree visits later
C28_DiagnosticsInPreOrder ==
    phase = "bound" =>
        \A i \in DOMAIN binder.diagnostics : \A j \in DOMAIN binder.diagnostics :
            i < j => ~PreOrderBefore(RaisedFor(binder.diagnostics[j]),
                                     RaisedFor(binder.diagnostics[i]))
====
